---- MODULE Spec2Model ----
(***************************************************************************)
(* State-machine model of zincati's update orchestration.                  *)
(*                                                                         *)
(* Two arrangements of the actors exist in the sources:                    *)
(*   "folded": UpdateAgent (update_agent/agent.rs) ticks and drives        *)
(*             CincinnatiClient (cincinnati/mod.rs), the strategy          *)
(*             (strategy/*.rs) and RpmOstreeClient (rpm_ostree/client.rs). *)
(*   "split":  CincinnatiScanner (cincinnati.rs) pushes releases to        *)
(*             RpmOstreeClient (rpm_ostree.rs), which stages them and      *)
(*             hands them to Finalizer (finalize.rs).                      *)
(* A behaviour runs one arrangement, chosen in Init (topology).            *)
(*                                                                         *)
(* Every asynchronous chain (the future a handler returns) is a record of  *)
(* `chains`; actix spawns it and goes on with the mailbox, so several      *)
(* chains of one actor can be in flight together.                          *)
(***************************************************************************)
EXTENDS Integers, Sequences, FiniteSets, TLC

VARIABLES
    topology,      \* "folded" | "split" (which set of actors main wires up)
    strategy,      \* UpStrategy / FinStrategy variant, fixed at configuration
    lockmgr,       \* environment: "up" | "down" (lock manager reachable?)
    state,         \* UpdateAgent.state
    ticks,         \* timer firings so far
    chains,        \* asynchronous chains in flight
    dbus,          \* requests queued or running at the DbusClient SyncArbiter
    workers,       \* live threads of the DbusClient SyncArbiter
    rpmPending,    \* RpmOstreeClient.pending (rpm_ostree.rs)
    rpmBox,        \* mailbox of RpmOstreeClient (rpm_ostree.rs)
    finPending,    \* Finalizer.pending
    finSteady,     \* Finalizer.steady
    finBox,        \* mailbox of Finalizer
    finalizeSent,  \* history: finalize requests sent to RpmOstreeClient
    last,          \* history: the agent's chain that completed last
    clean,         \* history: every collaborator answered positively, no overlap
    arg,           \* the input of a function evaluated on its own
    ret            \* the value of that function

vars == <<topology, strategy, lockmgr, state, ticks, chains, dbus, workers, rpmPending,
          rpmBox, finPending, finSteady, finBox, finalizeSent, last, clean,
          arg, ret>>

splitVars == <<rpmPending, rpmBox, finPending, finSteady, finBox>>

fnVars == <<arg, ret>>

----------------------------------------------------------------------------
(* Bounds of the model *)

MaxTicks == 7
MaxTimers == 3
MaxInflight == 2
MaxBox == 1
HandlerTicks == 3

(* Program constants *)

\* SyncArbiter::start(2, DbusClient::default)
DbusThreads == 2
\* reqwest::StatusCode::OK
StatusOK == 200
\* number of variants of UpdateAgentState
NumStates == 7

----------------------------------------------------------------------------
(* Values *)

Releases == {"r1", "r2"}
NoRelease == "none"

Strategies == {"Http", "Immediate", "Never", "Periodic"}

\* Result<T, Error> with T one of (), bool, Option<Release>; val is a string
Ok(v) == [st |-> "ok", val |-> v]
Err == [st |-> "err", val |-> "error"]
Pending == [st |-> "pending", val |-> "unset"]

UpdateAgentState ==
    [tag : {"StartState", "Initialization", "Steady"}, rel : {NoRelease}]
    \cup [tag : {"UpdateFound", "UpdateInProgress", "UpdateStaged",
                 "UpdateFinalizing"}, rel : Releases]

StartState == [tag |-> "StartState", rel |-> NoRelease]

----------------------------------------------------------------------------
(* Strategy *)

\* HTTP status codes the lock manager is let to answer with
HttpStatuses == {200, 204, 404, 503}

\* what one POST to the lock manager can end in: a transport error (refused
\* connection, timeout, malformed HTTP response) or a response with a status
HttpOutcomes ==
    [kind : {"neterr"}, status : {0}] \cup [kind : {"resp"}, status : HttpStatuses]

NoHttp == [kind |-> "nohttp", status |-> 0]

\* reqwest Response::error_for_status: Err for 4xx and 5xx
error_for_status(status) == status >= 400 /\ status <= 599

\* faulty variant: an unreachable lock manager counts as permission
post_to_manager_fail_open(o) ==
    IF o.kind = "neterr" THEN Ok("true")
    ELSE IF error_for_status(o.status) THEN Err
    ELSE IF o.status = StatusOK THEN Ok("true") ELSE Ok("false")

\* faulty variant: every response that is not an error status counts as positive
post_to_manager_any_success(o) ==
    IF o.kind = "neterr" THEN Err
    ELSE IF error_for_status(o.status) THEN Err
    ELSE Ok("true")

post_to_manager(o) ==
    IF o.kind = "neterr" THEN Err
    ELSE IF error_for_status(o.status) THEN Err
    ELSE IF o.status = StatusOK THEN Ok("true") ELSE Ok("false")

StratImmediate_has_green_light == Ok("true")
StratImmediate_report_steady == Ok("true")
\* faulty variant: the Never strategy grants the green light
StratNever_has_green_light_true == Ok("true")
StratNever_has_green_light == Ok("false")
\* faulty variant: Never confirms the steady state
StratNever_report_steady_true == Ok("true")
StratNever_report_steady == Ok("false")
StratPeriodic_finalize == Ok("true")

has_green_light(s, o) ==
    CASE s = "Http" -> post_to_manager(o)
      [] s = "Immediate" -> StratImmediate_has_green_light
      [] s = "Never" -> StratNever_has_green_light
      [] s = "Periodic" -> StratPeriodic_finalize

report_steady(s, o) ==
    CASE s = "Http" -> post_to_manager(o)
      [] s = "Immediate" -> StratImmediate_report_steady
      [] s = "Never" -> StratNever_report_steady
      [] s = "Periodic" -> StratPeriodic_finalize

\* the outcomes the environment can give one strategy question
StrategyInputs ==
    IF strategy = "Http"
    THEN IF lockmgr = "down" THEN {o \in HttpOutcomes : o.kind = "neterr"}
         ELSE HttpOutcomes
    ELSE {NoHttp}

----------------------------------------------------------------------------
(* Cincinnati graph *)

\* identity.current_version of the running node
CurrentVersion == "r0"

Versions == Releases \cup {CurrentVersion}

\* sequences over S without repetition
NoDupSeqs(S) ==
    {s \in UNION {[1..n -> S] : n \in 0..Cardinality(S)} :
        \A i, j \in 1..Len(s) : i # j => s[i] # s[j]}

\* the releases that edges of g lead to from v, as a set
Succ(g, v) == {g.next[v][i] : i \in 1..Len(g.next[v])}

RECURSIVE Reach(_, _, _)
Reach(g, S, n) ==
    IF n = 0 THEN S
    ELSE Reach(g, S \cup UNION {Succ(g, v) : v \in S}, n - 1)

\* libcincinnati::Graph is a DAG
Acyclic(g) ==
    \A v \in g.nodes :
        v \notin Reach(g, Succ(g, v), Cardinality(g.nodes))

\* libcincinnati::Graph as served by the graph service: the releases, and
\* for each of them its direct successors in the order next_releases gives
Graphs ==
    {g \in UNION {[nodes : {N}, next : [N -> NoDupSeqs(N)]] : N \in SUBSET Versions} :
        Acyclic(g)}

\* Graph::find_by_version: Some(id) of the release with that version
find_by_version(g, version) ==
    IF version \in g.nodes THEN version ELSE NoRelease

\* Graph::next_releases: the direct successors of a release
next_releases(g, id) == g.next[id]

NotFound == [st |-> "err", val |-> "current version not found"]

\* faulty variant: a graph without the current version gives None
fetch_cincinnati_next_lenient(g, current) ==
    LET release_id == find_by_version(g, current) IN
    IF release_id = NoRelease THEN Ok("none")
    ELSE LET ups == next_releases(g, release_id) IN
         IF ups = <<>> THEN Ok("none") ELSE Ok(ups[1])

\* faulty variant: the last of the reachable releases is picked
fetch_cincinnati_next_last(g, current) ==
    LET release_id == find_by_version(g, current) IN
    IF release_id = NoRelease THEN NotFound
    ELSE LET ups == next_releases(g, release_id) IN
         IF ups = <<>> THEN Ok("none") ELSE Ok(ups[Len(ups)])

\* fetch_cincinnati_next, from the parsed graph on: ups.first().cloned()
fetch_cincinnati_next(g, current) ==
    LET release_id == find_by_version(g, current) IN
    IF release_id = NoRelease THEN NotFound
    ELSE LET ups == next_releases(g, release_id) IN
         IF ups = <<>> THEN Ok("none") ELSE Ok(ups[1])

\* a function evaluated on its own: no input, no value yet
NoArg == [fn |-> "none"]
NoRet == [st |-> "pending", val |-> "unset"]

----------------------------------------------------------------------------
(* Chains *)

\* a chain: the future one handler invocation returned
\*   id    a name for it, unique among the chains in flight
\*   op    the handler method that built it
\*   rel   the release it captured
\*   pc    what it awaits: "strategy" | "fetch" | "backend" | "ipc" | "ready"
\*   res   the value its inner future resolved to
\*   pre   UpdateAgent.state when the handler ran
\*   alone no other chain of the actor was in flight during its life
\*   http  the outcome of its POST to the lock manager, if any
\*   answer what the strategy answered it (report_steady, has_green_light)
\*   calls the requests it has made to collaborators (a chain built awaiting
\*         a reply has made one)
Chain(id, op, rel, pc, res) ==
    [id |-> id, op |-> op, rel |-> rel, pc |-> pc, res |-> res,
     pre |-> state, alone |-> chains = {}, http |-> NoHttp, answer |-> Pending,
     calls |-> IF pc = "ready" THEN 0 ELSE 1]

AgentOps == {"try_initialize", "try_steady", "check_for_update",
             "try_update_deployment", "check_update_success",
             "try_finalizing", "noop"}

\* handlers of the split arrangement that return a chain
SplitOps == {"FetchGraph", "ApplyPending", "ReportSteadyState", "TriggerFinalize"}

NewId == CHOOSE i \in 1..(MaxInflight + 1) : i \notin {c.id : c \in chains}

\* a chain of the split arrangement (pre and alone are the agent's)
SplitChain(id, op, rel, pc, res) ==
    [id |-> id, op |-> op, rel |-> rel, pc |-> pc, res |-> res,
     pre |-> StartState, alone |-> TRUE, http |-> NoHttp, answer |-> Pending,
     calls |-> IF pc = "ready" THEN 0 ELSE 1]

Overlapped(cs) == {[c EXCEPT !.alone = FALSE] : c \in cs}

\* history of the agent's last completed chain: its handler method, the
\* release it captured, its value, the strategy's answer, and the state
\* right before its closure ran
NoLast ==
    [op |-> "none", rel |-> NoRelease, res |-> Pending, answer |-> Pending,
     before |-> StartState]

Last(c) ==
    IF c.op \in AgentOps
    THEN [op |-> c.op, rel |-> c.rel, res |-> c.res, answer |-> c.answer,
          before |-> state]
    ELSE last

SetChain(c, new) == (chains \ {c}) \cup {new}

----------------------------------------------------------------------------
(* UpdateAgent (folded arrangement) *)

Init ==
    /\ topology \in {"folded", "split"}
    /\ strategy \in Strategies
    /\ lockmgr \in {"up", "down"}
    /\ (strategy # "Http" => lockmgr = "up")
    /\ state = StartState
    /\ ticks = 0
    /\ chains = {}
    /\ dbus = {}
    /\ workers = DbusThreads
    /\ rpmPending = NoRelease
    /\ rpmBox = <<>>
    /\ finPending = NoRelease
    /\ finSteady = FALSE
    /\ finBox = <<>>
    /\ finalizeSent = 0
    /\ last = NoLast
    /\ clean = TRUE
    /\ arg = NoArg
    /\ ret = NoRet

\* faulty variant: a tick in UpdateFinalizing asks to finalize again
handle_refinalizing(id) ==
    CASE state.tag = "StartState" ->
           Chain(id, "try_initialize", NoRelease, "ready", Ok("unit"))
      [] state.tag = "Initialization" ->
           Chain(id, "try_steady", NoRelease, "strategy", Pending)
      [] state.tag = "Steady" ->
           Chain(id, "check_for_update", NoRelease, "fetch", Pending)
      [] state.tag = "UpdateFound" ->
           Chain(id, "try_update_deployment", state.rel, "backend", Pending)
      [] state.tag = "UpdateInProgress" ->
           Chain(id, "check_update_success", state.rel, "backend", Pending)
      [] state.tag \in {"UpdateStaged", "UpdateFinalizing"} ->
           Chain(id, "try_finalizing", state.rel, "strategy", Pending)

\* Handler<RefreshTick>::handle: dispatch on the current state
handle(id) ==
    CASE state.tag = "StartState" ->
           Chain(id, "try_initialize", NoRelease, "ready", Ok("unit"))
      [] state.tag = "Initialization" ->
           Chain(id, "try_steady", NoRelease, "strategy", Pending)
      [] state.tag = "Steady" ->
           Chain(id, "check_for_update", NoRelease, "fetch", Pending)
      [] state.tag = "UpdateFound" ->
           Chain(id, "try_update_deployment", state.rel, "backend", Pending)
      [] state.tag = "UpdateInProgress" ->
           Chain(id, "check_update_success", state.rel, "backend", Pending)
      [] state.tag = "UpdateStaged" ->
           Chain(id, "try_finalizing", state.rel, "strategy", Pending)
      [] state.tag = "UpdateFinalizing" ->
           Chain(id, "noop", NoRelease, "ready", Ok("unit"))

\* a RefreshTick is delivered (ctx.notify at start, then run_interval) and
\* handled; the chain it returns is spawned on the actor's context
RefreshTick ==
    /\ topology = "folded"
    /\ ticks < MaxTicks
    /\ Cardinality(chains) < MaxInflight
    /\ ticks' = ticks + 1
    /\ chains' = Overlapped(chains) \cup {handle(NewId)}
    /\ clean' = (clean /\ chains = {})
    /\ UNCHANGED fnVars /\ UNCHANGED workers /\ UNCHANGED <<topology, strategy, lockmgr, state, dbus, finalizeSent, last>>
    /\ UNCHANGED splitVars

\* try_steady: the report_steady future resolves
try_steady_reply(c, o) ==
    /\ chains' = SetChain(c, [c EXCEPT !.pc = "ready", !.http = o,
                                       !.answer = report_steady(strategy, o),
                                       !.res = report_steady(strategy, o)])
    /\ clean' = (clean /\ report_steady(strategy, o) = Ok("true"))
    /\ UNCHANGED finalizeSent

\* faulty variant: the finalize request goes out on any answer, true or false
try_finalizing_reply_unchecked(c, o) ==
    LET g == has_green_light(strategy, o) IN
    /\ chains' = SetChain(c,
          IF g.st = "ok"
          THEN [c EXCEPT !.pc = "backend", !.http = o, !.answer = g,
                         !.calls = @ + 1]
          ELSE [c EXCEPT !.pc = "ready", !.http = o, !.answer = g, !.res = Err])
    /\ finalizeSent' = IF g.st = "ok" THEN finalizeSent + 1 ELSE finalizeSent
    /\ clean' = (clean /\ g = Ok("true"))

\* try_finalizing: the has_green_light future resolves; on true the
\* FinalizeUpdate request goes out to RpmOstreeClient
try_finalizing_reply(c, o) ==
    LET g == has_green_light(strategy, o) IN
    /\ chains' = SetChain(c,
          IF g = Ok("true")
          THEN [c EXCEPT !.pc = "backend", !.http = o, !.answer = g,
                         !.calls = @ + 1]
          ELSE IF g = Ok("false")
          THEN [c EXCEPT !.pc = "ready", !.http = o, !.answer = g,
                         !.res = Ok("none")]
          ELSE [c EXCEPT !.pc = "ready", !.http = o, !.answer = g, !.res = Err])
    /\ finalizeSent' = IF g = Ok("true") THEN finalizeSent + 1 ELSE finalizeSent
    /\ clean' = (clean /\ g = Ok("true"))

\* Handler<ReportSteadyState> for Finalizer: the report_steady future resolves
ReportSteadyState_reply(c, o) ==
    /\ chains' = SetChain(c, [c EXCEPT !.pc = "ready", !.http = o,
                                       !.answer = report_steady(strategy, o),
                                       !.res = report_steady(strategy, o)])
    /\ UNCHANGED <<finalizeSent, clean, rpmBox>>

\* Handler<TriggerFinalize> for Finalizer: the has_green_light future
\* resolves; on true rpm_ostree_finalize sends FinalizeDeployment
TriggerFinalize_reply(c, o) ==
    LET g == has_green_light(strategy, o) IN
    /\ g = Ok("true") => Len(rpmBox) < MaxBox
    /\ chains' = SetChain(c,
          IF g.st = "ok"
          THEN [c EXCEPT !.pc = "ready", !.http = o, !.answer = g,
                         !.res = Ok("unit"),
                         !.calls = IF g = Ok("true") THEN @ + 1 ELSE @]
          ELSE [c EXCEPT !.pc = "ready", !.http = o, !.answer = g, !.res = Err])
    /\ rpmBox' = IF g = Ok("true")
                 THEN Append(rpmBox, [type |-> "FinalizeDeployment", rel |-> c.rel])
                 ELSE rpmBox
    /\ finalizeSent' = IF g = Ok("true") THEN finalizeSent + 1 ELSE finalizeSent
    /\ UNCHANGED clean

StrategyReply ==
    \E c \in chains, o \in StrategyInputs :
        /\ c.pc = "strategy"
        /\ CASE c.op = "try_steady" ->
                    try_steady_reply(c, o) /\ UNCHANGED rpmBox
             [] c.op = "try_finalizing" ->
                    try_finalizing_reply(c, o) /\ UNCHANGED rpmBox
             [] c.op = "ReportSteadyState" -> ReportSteadyState_reply(c, o)
             [] c.op = "TriggerFinalize" -> TriggerFinalize_reply(c, o)
             [] OTHER -> FALSE
        /\ UNCHANGED fnVars /\ UNCHANGED workers /\ UNCHANGED <<topology, strategy, lockmgr, state, ticks, dbus, last>>
        /\ UNCHANGED <<rpmPending, finPending, finSteady, finBox>>

\* check_for_update: CincinnatiClient answers FetchGraph with what
\* fetch_cincinnati_next makes of the served graph, or the request fails
FetchOutcomes ==
    {fetch_cincinnati_next(g, CurrentVersion) : g \in Graphs} \cup {Err}

\* faulty variant: a release found is sent to be staged by the same chain
check_for_update_reply_staging(c, o) ==
    /\ chains' = SetChain(c, [c EXCEPT !.pc = "ready", !.res = o,
              !.calls = IF o.st = "ok" /\ o.val \in Releases THEN @ + 1 ELSE @])
    /\ clean' = (clean /\ o.st = "ok" /\ o.val \in Releases)
    /\ UNCHANGED rpmBox

\* check_for_update (agent.rs): the answer is the chain's value
check_for_update_reply(c, o) ==
    /\ chains' = SetChain(c, [c EXCEPT !.pc = "ready", !.res = o])
    /\ clean' = (clean /\ o.st = "ok" /\ o.val \in Releases)
    /\ UNCHANGED rpmBox

\* Handler<FetchGraph> for CincinnatiScanner (cincinnati.rs): a release
\* found is sent to RpmOstreeClient as StageUpdate
FetchGraph_reply(c, o) ==
    /\ (o.st = "ok" /\ o.val \in Releases) => Len(rpmBox) < MaxBox
    /\ chains' = SetChain(c, [c EXCEPT !.pc = "ready",
              !.res = IF o.st = "ok" THEN Ok("unit") ELSE Err])
    /\ rpmBox' = IF o.st = "ok" /\ o.val \in Releases
                 THEN Append(rpmBox, [type |-> "StageUpdate", rel |-> o.val])
                 ELSE rpmBox
    /\ UNCHANGED clean

FetchReply ==
    \E c \in chains, o \in FetchOutcomes :
        /\ c.pc = "fetch"
        /\ IF c.op = "FetchGraph" THEN FetchGraph_reply(c, o)
                                  ELSE check_for_update_reply(c, o)
        /\ UNCHANGED fnVars /\ UNCHANGED workers /\ UNCHANGED <<topology, strategy, lockmgr, state, ticks, dbus,
                       finalizeSent, last>>
        /\ UNCHANGED <<rpmPending, finPending, finSteady, finBox>>

----------------------------------------------------------------------------
(* RpmOstreeClient (rpm_ostree/client.rs) and DbusClient *)

\* a request at the worker
\*   id    the chain that awaits the reply
\*   req   the request to RpmOstreeClient that caused it
\*   asked the release that request named
\*   msg   the message sent to DbusClient, with its release rel
DbusCall(id, req, asked, msg, rel) ==
    [id |-> id, req |-> req, asked |-> asked, msg |-> msg, rel |-> rel,
     running |-> FALSE]

\* Handler<StageUpdate>: stage_update sends StageDeployment to the worker
StageUpdate_handle(c) == DbusCall(c.id, "StageUpdate", c.rel, "StageDeployment", c.rel)

\* Handler<FinalizeUpdate>: finalize_update sends StageDeployment to the worker
FinalizeUpdate_handle(c) ==
    DbusCall(c.id, "FinalizeUpdate", c.rel, "StageDeployment", c.rel)

\* Handler<CheckUpdateTxn>: named by the agent, not part of the sources
CheckUpdateTxn_handle(c) ==
    DbusCall(c.id, "CheckUpdateTxn", c.rel, "CheckUpdateTxn", c.rel)

BackendHandle ==
    \E c \in chains :
        /\ c.pc = "backend"
        /\ dbus' = dbus \cup
             {CASE c.op = "try_update_deployment" -> StageUpdate_handle(c)
                [] c.op = "try_finalizing" -> FinalizeUpdate_handle(c)
                [] c.op = "check_update_success" -> CheckUpdateTxn_handle(c)}
        /\ chains' = SetChain(c, [c EXCEPT !.pc = "ipc"])
        /\ UNCHANGED fnVars /\ UNCHANGED workers /\ UNCHANGED <<topology, strategy, lockmgr, state, ticks,
                       finalizeSent, last, clean>>
        /\ UNCHANGED splitVars

Running == {d \in dbus : d.running}

\* a thread of the SyncArbiter takes the next request
DbusStart ==
    \E d \in dbus :
        /\ ~d.running
        /\ Cardinality(Running) < workers
        /\ dbus' = (dbus \ {d}) \cup {[d EXCEPT !.running = TRUE]}
        /\ UNCHANGED fnVars /\ UNCHANGED workers /\ UNCHANGED <<topology, strategy, lockmgr, state, ticks, chains,
                       finalizeSent, last, clean>>
        /\ UNCHANGED splitVars

\* Handler<StageDeployment> for DbusClient: Ok(msg.release), or the call
\* fails; the client maps the release to Some(release)
StageDeployment_outcomes(d) == {Ok(d.rel), Err}

\* the answers check_progress(r) can give
CheckUpdateTxn_outcomes(d) == {Ok(d.rel), Ok("none"), Err}

DbusOutcomes(d) ==
    IF d.msg = "StageDeployment" THEN StageDeployment_outcomes(d)
    ELSE CheckUpdateTxn_outcomes(d)

\* faulty variant: the release is sent to Finalizer whatever the stage call
\* returned
finalizer_trigger_always(c, o) ==
    /\ Len(finBox) < MaxBox
    /\ chains' = SetChain(c, [c EXCEPT !.pc = "ready",
              !.res = IF o.st = "ok" THEN Ok("unit") ELSE Err])
    /\ finBox' = Append(finBox, [type |-> "NewPending", rel |-> c.rel])
    /\ UNCHANGED clean

\* finalizer_trigger (rpm_ostree.rs): a staged release is sent to Finalizer
finalizer_trigger(c, o) ==
    /\ o.st = "ok" => Len(finBox) < MaxBox
    /\ chains' = SetChain(c, [c EXCEPT !.pc = "ready",
              !.res = IF o.st = "ok" THEN Ok("unit") ELSE Err])
    /\ finBox' = IF o.st = "ok"
                 THEN Append(finBox, [type |-> "NewPending", rel |-> o.val])
                 ELSE finBox
    /\ UNCHANGED clean

\* Handler<StageDeployment> for DbusClient: a failed or timed-out method call
\* panics in unwrap; the thread is lost and the caller's request is closed
DbusClient_threads(d, o) ==
    IF d.msg = "StageDeployment" /\ o.st = "err" THEN workers - 1 ELSE workers

DbusReply ==
    \E d \in Running :
      \E o \in DbusOutcomes(d) :
        \E c \in chains :
          /\ c.id = d.id /\ c.pc = "ipc"
          /\ dbus' = dbus \ {d}
          /\ IF c.op = "ApplyPending" THEN finalizer_trigger(c, o)
             ELSE /\ chains' = SetChain(c, [c EXCEPT !.pc = "ready", !.res = o])
                  /\ clean' = (clean /\ o.st = "ok" /\ o.val \in Releases)
                  /\ UNCHANGED finBox
          /\ workers' = DbusClient_threads(d, o)
          /\ UNCHANGED fnVars /\ UNCHANGED <<topology, strategy, lockmgr, state, ticks,
                         finalizeSent, last>>
          /\ UNCHANGED <<rpmPending, rpmBox, finPending, finSteady>>

----------------------------------------------------------------------------
(* Completion of a chain: the closure given to map runs on the actor *)

Some(c) == c.res.st = "ok" /\ c.res.val \in Releases

\* faulty variant: initialization waits for a confirmed result
initialization_guarded(c) ==
    IF c.res = Ok("true") THEN [tag |-> "Initialization", rel |-> NoRelease]
    ELSE state

\* try_initialize
initialization(c) == [tag |-> "Initialization", rel |-> NoRelease]

\* faulty variant: the answer of report_steady is not looked at
steady_state_unchecked(c) == [tag |-> "Steady", rel |-> NoRelease]

\* try_steady
steady_state(c) ==
    IF c.res = Ok("true") THEN [tag |-> "Steady", rel |-> NoRelease] ELSE state

\* faulty variant: an answer without a release is taken for an update
staged_eager(c) ==
    [tag |-> "UpdateFound",
     rel |-> IF Some(c) THEN c.res.val ELSE CHOOSE r \in Releases : TRUE]

\* check_for_update
staged(c) ==
    IF Some(c) THEN [tag |-> "UpdateFound", rel |-> c.res.val] ELSE state

\* try_update_deployment
updating(c) ==
    IF Some(c) THEN [tag |-> "UpdateInProgress", rel |-> c.res.val] ELSE state

\* check_update_success
checked(c) ==
    IF Some(c) THEN [tag |-> "UpdateInProgress", rel |-> c.res.val] ELSE state

\* try_finalizing
finalized(c) ==
    IF Some(c) THEN [tag |-> "UpdateFinalizing", rel |-> c.res.val] ELSE state

\* ActorFuture::map: the closure runs only on Ok
map(c) ==
    IF c.res.st # "ok" THEN state
    ELSE CASE c.op = "try_initialize" -> initialization(c)
           [] c.op = "try_steady" -> steady_state(c)
           [] c.op = "check_for_update" -> staged(c)
           [] c.op = "try_update_deployment" -> updating(c)
           [] c.op = "check_update_success" -> checked(c)
           [] c.op = "try_finalizing" -> finalized(c)
           [] OTHER -> state

\* Handler<ReportSteadyState> for Finalizer: the closure given to map
steady_flag(c) ==
    IF c.op = "ReportSteadyState" /\ c.res = Ok("true") THEN TRUE ELSE finSteady

Complete ==
    \E c \in chains :
        /\ c.pc = "ready"
        /\ state' = map(c)
        /\ finSteady' = steady_flag(c)
        /\ chains' = chains \ {c}
        /\ last' = Last(c)
        /\ UNCHANGED fnVars /\ UNCHANGED workers /\ UNCHANGED <<topology, strategy, lockmgr, ticks, dbus,
                       finalizeSent, clean>>
        /\ UNCHANGED <<rpmPending, rpmBox, finPending, finBox>>

----------------------------------------------------------------------------
(* Split arrangement: timers *)

\* a message in a mailbox; an ApplyPending notified by Handler<StageUpdate>
\* carries, for the record, the release that StageUpdate named
Msg(type, rel) == [type |-> type, rel |-> rel]

\* CincinnatiScanner: FetchGraph at start and every fetch_interval; the
\* handler starts the fetch
ScannerTick ==
    /\ topology = "split"
    /\ ticks < MaxTimers
    /\ Cardinality(chains) < MaxInflight
    /\ ticks' = ticks + 1
    /\ chains' = chains
                   \cup {SplitChain(NewId, "FetchGraph", NoRelease, "fetch", Pending)}
    /\ UNCHANGED fnVars /\ UNCHANGED workers /\ UNCHANGED <<topology, strategy, lockmgr, state, dbus, finalizeSent, last, clean>>
    /\ UNCHANGED splitVars

\* RpmOstreeClient::started: run_interval(apply_interval) notifies ApplyPending
ApplyTimer ==
    /\ topology = "split"
    /\ ticks < MaxTimers
    /\ Len(rpmBox) < MaxBox
    /\ ticks' = ticks + 1
    /\ rpmBox' = Append(rpmBox, Msg("ApplyPending", NoRelease))
    /\ UNCHANGED fnVars /\ UNCHANGED workers /\ UNCHANGED <<topology, strategy, lockmgr, state, chains, dbus,
                   finalizeSent, last, clean>>
    /\ UNCHANGED <<rpmPending, finPending, finSteady, finBox>>

\* Finalizer::started: ReportSteadyState at start and every 20 s, and
\* TriggerFinalize every 20 s
FinalizerTimer ==
    \E type \in {"ReportSteadyState", "TriggerFinalize"} :
        /\ topology = "split"
        /\ ticks < MaxTimers
        /\ Len(finBox) < MaxBox
        /\ ticks' = ticks + 1
        /\ finBox' = Append(finBox, Msg(type, NoRelease))
        /\ UNCHANGED fnVars /\ UNCHANGED workers /\ UNCHANGED <<topology, strategy, lockmgr, state, chains, dbus,
                       finalizeSent, last, clean>>
        /\ UNCHANGED <<rpmPending, rpmBox, finPending, finSteady>>

----------------------------------------------------------------------------
(* RpmOstreeClient (rpm_ostree.rs) *)

\* Handler<StageUpdate>: first write wins, then ctx.notify(ApplyPending)
StageUpdate_pending(msg) ==
    IF rpmPending = NoRelease THEN msg.rel ELSE rpmPending

RpmStageUpdate(msg) ==
    /\ rpmPending' = StageUpdate_pending(msg)
    /\ rpmBox' = Append(Tail(rpmBox), Msg("ApplyPending", msg.rel))
    /\ UNCHANGED <<chains, dbus>>

\* faulty variant: the slot is emptied when its release is handed to the worker
RpmApplyPending_clearing(msg) ==
    /\ rpmBox' = Tail(rpmBox)
    /\ IF rpmPending # NoRelease
       THEN /\ Cardinality(chains) < MaxInflight
            /\ chains' = chains \cup
                 {SplitChain(NewId, "ApplyPending", rpmPending, "ipc", Pending)}
            /\ dbus' = dbus \cup
                 {DbusCall(NewId,
                           IF msg.rel = NoRelease THEN "ApplyPending"
                                                  ELSE "StageUpdate",
                           msg.rel, "StageDeployment", rpmPending)}
       ELSE UNCHANGED <<chains, dbus>>
    /\ rpmPending' = NoRelease

\* Handler<ApplyPending>: stage_update for the pending release, if any
RpmApplyPending(msg) ==
    /\ rpmBox' = Tail(rpmBox)
    /\ IF rpmPending # NoRelease
       THEN /\ Cardinality(chains) < MaxInflight
            /\ chains' = chains \cup
                 {SplitChain(NewId, "ApplyPending", rpmPending, "ipc", Pending)}
            /\ dbus' = dbus \cup
                 {DbusCall(NewId,
                           IF msg.rel = NoRelease THEN "ApplyPending"
                                                  ELSE "StageUpdate",
                           msg.rel, "StageDeployment", rpmPending)}
       ELSE UNCHANGED <<chains, dbus>>
    /\ UNCHANGED rpmPending

\* Handler<FinalizeDeployment>: finalize_deployment only logs
RpmFinalizeDeployment(msg) ==
    /\ rpmBox' = Tail(rpmBox)
    /\ UNCHANGED <<rpmPending, chains, dbus>>

RpmHandle ==
    /\ rpmBox # <<>>
    /\ LET msg == Head(rpmBox) IN
       CASE msg.type = "StageUpdate" -> RpmStageUpdate(msg)
         [] msg.type = "ApplyPending" -> RpmApplyPending(msg)
         [] msg.type = "FinalizeDeployment" -> RpmFinalizeDeployment(msg)
    /\ UNCHANGED fnVars /\ UNCHANGED workers /\ UNCHANGED <<topology, strategy, lockmgr, state, ticks, finalizeSent, last, clean>>
    /\ UNCHANGED <<finPending, finSteady, finBox>>

----------------------------------------------------------------------------
(* Finalizer (finalize.rs) *)

\* Handler<NewPending>: the slot is written, then ctx.notify(TriggerFinalize)
NewPending_pending(msg) == msg.rel

\* faulty variant: a release that arrives before the steady state is dropped
FinNewPending_dropping(msg) ==
    /\ finPending' = IF finSteady THEN NewPending_pending(msg) ELSE finPending
    /\ finBox' = Append(Tail(finBox), Msg("TriggerFinalize", NoRelease))
    /\ UNCHANGED chains

FinNewPending(msg) ==
    /\ finPending' = NewPending_pending(msg)
    /\ finBox' = Append(Tail(finBox), Msg("TriggerFinalize", NoRelease))
    /\ UNCHANGED chains

\* faulty variant: the strategy is asked again after the steady state
FinReportSteadyState_again(msg) ==
    /\ finBox' = Tail(finBox)
    /\ Cardinality(chains) < MaxInflight
    /\ chains' = chains \cup
         {SplitChain(NewId, "ReportSteadyState", NoRelease, "strategy", Pending)}
    /\ UNCHANGED finPending

\* Handler<ReportSteadyState>: nothing once steady, else ask the strategy
FinReportSteadyState(msg) ==
    /\ finBox' = Tail(finBox)
    /\ IF finSteady THEN UNCHANGED chains
       ELSE /\ Cardinality(chains) < MaxInflight
            /\ chains' = chains \cup
                 {SplitChain(NewId, "ReportSteadyState", NoRelease, "strategy", Pending)}
    /\ UNCHANGED finPending

\* faulty variant: the steady flag is not looked at
FinTriggerFinalize_unsteady(msg) ==
    /\ finBox' = Tail(finBox)
    /\ IF finPending = NoRelease THEN UNCHANGED chains
       ELSE /\ Cardinality(chains) < MaxInflight
            /\ chains' = chains \cup
                 {SplitChain(NewId, "TriggerFinalize", finPending, "strategy", Pending)}
    /\ UNCHANGED finPending

\* Handler<TriggerFinalize>: needs a pending release and steady state, then
\* asks the strategy for the green light
FinTriggerFinalize(msg) ==
    /\ finBox' = Tail(finBox)
    /\ IF finPending = NoRelease \/ ~finSteady THEN UNCHANGED chains
       ELSE /\ Cardinality(chains) < MaxInflight
            /\ chains' = chains \cup
                 {SplitChain(NewId, "TriggerFinalize", finPending, "strategy", Pending)}
    /\ UNCHANGED finPending

FinHandle ==
    /\ finBox # <<>>
    /\ LET msg == Head(finBox) IN
       CASE msg.type = "NewPending" -> FinNewPending(msg)
         [] msg.type = "ReportSteadyState" -> FinReportSteadyState(msg)
         [] msg.type = "TriggerFinalize" -> FinTriggerFinalize(msg)
    /\ UNCHANGED fnVars /\ UNCHANGED workers /\ UNCHANGED <<topology, strategy, lockmgr, state, ticks, dbus,
                   finalizeSent, last, clean>>
    /\ UNCHANGED <<rpmPending, rpmBox, finSteady>>

----------------------------------------------------------------------------

Next ==
    \/ RefreshTick
    \/ StrategyReply
    \/ FetchReply
    \/ BackendHandle
    \/ DbusStart
    \/ DbusReply
    \/ Complete
    \/ ScannerTick
    \/ ApplyTimer
    \/ FinalizerTimer
    \/ RpmHandle
    \/ FinHandle

Spec == Init /\ [][Next]_vars

\* the tick handler exercised in every value of UpdateAgentState, for the
\* last HandlerTicks ticks of a run
InitHandler ==
    /\ topology \in {"folded", "split"}
    /\ strategy \in Strategies
    /\ lockmgr \in {"up", "down"}
    /\ (strategy # "Http" => lockmgr = "up")
    /\ state \in UpdateAgentState
    /\ (topology = "split" => state = StartState)
    /\ ticks = IF topology = "folded" THEN MaxTicks - HandlerTicks ELSE 0
    /\ chains = {}
    /\ dbus = {}
    /\ workers = DbusThreads
    /\ rpmPending = NoRelease
    /\ rpmBox = <<>>
    /\ finPending = NoRelease
    /\ finSteady = FALSE
    /\ finBox = <<>>
    /\ finalizeSent = 0
    /\ last = NoLast
    /\ clean = TRUE
    /\ arg = NoArg
    /\ ret = NoRet

SpecHandler == InitHandler /\ [][Next]_vars

----------------------------------------------------------------------------
(* Properties *)

Completes(c) == \A d \in chains' : d.id # c.id

StageCalls == {d \in dbus : d.req = "StageUpdate"}

GreenOps == {"try_finalizing", "TriggerFinalize"}

\* C1: for a tick of the agent whose external call (report_steady,
\* fetch_next, stage, check_progress, has_green_light, finalize) ends in a
\* failure, the state after the tick's chain completes is the state the tick
\* was dispatched in.
C1_FailureKeepsState ==
    [][\A c \in chains :
         (c.op \in AgentOps /\ c.pc = "ready" /\ c.res.st = "err" /\ Completes(c))
            => state' = c.pre]_vars

\* the closure of a failed chain does not run: its completion writes nothing,
\* and the state is the one at dispatch when no other chain was in flight
FailedChainWritesNothing ==
    [][\A c \in chains :
         (c.op \in AgentOps /\ c.pc = "ready" /\ c.res.st = "err" /\ Completes(c))
            => /\ state' = state
               /\ (c.alone => state' = c.pre)]_vars

\* C2: a finalize request is sent only in the step in which has_green_light
\* answered true to the same chain, and the agent moves from UpdateStaged to
\* UpdateFinalizing only by a chain that got the answer true.
C2_FinalizeOnlyAfterGreenLight ==
    [][/\ finalizeSent' # finalizeSent =>
            \E c \in chains : \E d \in chains' :
                /\ c.op \in GreenOps /\ c.pc = "strategy"
                /\ d.id = c.id /\ d.answer = Ok("true")
       /\ (state.tag = "UpdateStaged" /\ state'.tag = "UpdateFinalizing") =>
            \E c \in chains :
                /\ Completes(c)
                /\ c.op = "try_finalizing" /\ c.answer = Ok("true")
       /\ \A c \in chains : \A d \in chains' :
            (/\ c.op \in GreenOps /\ c.pc = "strategy"
             /\ d.id = c.id /\ d.answer \in {Ok("false"), Err})
                => (d.pc = "ready" /\ finalizeSent' = finalizeSent)]_vars

C2_Witness ==
    /\ last.op = "try_finalizing"
    /\ last.before.tag = "UpdateStaged"
    /\ last.answer = Ok("true")
    /\ state.tag = "UpdateFinalizing"
    /\ finalizeSent = 1

\* C3: in UpdateInProgress(r), check_progress(r) = Some(r) moves the agent to
\* UpdateStaged(r), and check_progress(r) = None leaves UpdateInProgress(r).
C3_CheckProgressStages ==
    (last.op = "check_update_success" /\ last.before.tag = "UpdateInProgress")
        => /\ last.res = Ok(last.rel) =>
                state = [tag |-> "UpdateStaged", rel |-> last.rel]
           /\ last.res = Ok("none") => state = last.before

\* C4: Immediate strategy, every collaborator answering positively and at
\* once: after as many ticks as there are lifecycle states the agent, started
\* in StartState, is in UpdateFinalizing.
C4_ImmediateTraversal ==
    (/\ topology = "folded" /\ strategy = "Immediate"
     /\ clean /\ ticks >= NumStates /\ chains = {})
        => state.tag = "UpdateFinalizing"

\* C5: with the Never strategy every has_green_light answer is false, an
\* agent in UpdateStaged(r) stays there and no finalize request is sent.
C5_NeverStaysStaged ==
    [][strategy = "Never" =>
         /\ \A c \in chains' :
              (c.op \in GreenOps /\ c.answer # Pending) => c.answer = Ok("false")
         /\ finalizeSent' = finalizeSent
         /\ state.tag = "UpdateStaged" => state' = state]_vars

C5_Witness ==
    /\ strategy = "Never"
    /\ state.tag = "UpdateStaged"
    /\ last.op = "try_finalizing" /\ last.answer = Ok("false")
    /\ ticks >= (MaxTicks - HandlerTicks) + 3
    /\ \E c \in chains : c.op = "try_finalizing" /\ c.answer = Ok("false")

\* a POST to the lock manager that did not end in a 200 response
Negative(o) == o.kind = "neterr" \/ (o.kind = "resp" /\ o.status # StatusOK)

\* C6: RemoteHttp: a network error, a non-200 status or a malformed response
\* makes has_green_light and report_steady complete with the value false.
C6_FailClosedIsFalse ==
    \A c \in chains : Negative(c.http) => c.answer = Ok("false")

\* C7: RemoteHttp with an unreachable lock manager: no move from
\* Initialization to Steady, none from UpdateStaged to UpdateFinalizing,
\* no steady flag, no finalize request.
C7_UnreachableLockManager ==
    [][(strategy = "Http" /\ lockmgr = "down") =>
         /\ ~(state.tag = "Initialization" /\ state'.tag = "Steady")
         /\ ~(state.tag = "UpdateStaged" /\ state'.tag = "UpdateFinalizing")
         /\ finalizeSent' = finalizeSent
         /\ ~finSteady']_vars

C7_Witness ==
    /\ strategy = "Http" /\ lockmgr = "down"
    /\ state.tag = "UpdateStaged"
    /\ last.op = "try_finalizing" /\ last.answer = Err
    /\ \E c \in chains : c.op = "try_finalizing" /\ c.alone /\ c.answer = Err

\* C8: RemoteHttp: the answer is true exactly when the response status is 200.
C8_TrueIffStatus200 ==
    \A c \in chains :
        c.http # NoHttp =>
            (c.answer = Ok("true") <=>
                (c.http.kind = "resp" /\ c.http.status = StatusOK))

C8_Witness ==
    /\ \E c \in chains :
         /\ c.op = "TriggerFinalize"
         /\ c.http.kind = "resp" /\ c.http.status = StatusOK
         /\ c.answer = Ok("true")
    /\ \E c \in chains :
         /\ c.http.kind = "resp" /\ c.http.status # StatusOK
         /\ c.answer # Pending

\* C9: two stage requests for the same release, the second while the first
\* is pending, leave one IPC stage call outstanding at the worker.
C9_OneStageCallPerRelease ==
    \A r \in Releases :
        Cardinality({d \in StageCalls : d.asked = r /\ d.rel = r}) <= 1

\* C10: a stage request for another release than the pending one starts no
\* IPC stage call and leaves the slot: one target release in flight at most.
C10_OneTargetInFlight ==
    /\ \A d1, d2 \in StageCalls : d1.rel = d2.rel
    /\ rpmPending # NoRelease => \A d \in StageCalls : d.rel = rpmPending

\* C11: a tick of the agent is not dispatched while the chain of an earlier
\* tick still awaits its network or IPC call.
C11_NoOverlappingTicks ==
    [][(topology = "folded" /\ ticks' = ticks + 1)
          => \A c \in chains : c.op \in AgentOps => c.pc = "ready"]_vars

\* the agent's state changes only when one of its chains completes
StateWrittenByCompletion ==
    state' # state =>
        \E c \in chains : c.op \in AgentOps /\ c.pc = "ready" /\ Completes(c)

C13_OneIpcCallExecuting == Cardinality(Running) <= 1

\* C14: once the agent is in UpdateFinalizing(r) no step changes the state,
\* and every tick dispatched there builds a chain that calls no collaborator.
C14_FinalizingIsFinal ==
    [][state.tag = "UpdateFinalizing" =>
         /\ state' = state
         /\ (ticks' = ticks + 1 =>
               \E c \in chains' :
                   /\ c.id = NewId
                   /\ c.op = "noop" /\ c.pc = "ready" /\ c.calls = 0)
         /\ \A c \in chains' :
               (c.op \in AgentOps /\ c.pre.tag = "UpdateFinalizing")
                   => c.calls = 0]_vars

C14_Witness ==
    /\ state.tag = "UpdateFinalizing"
    /\ finalizeSent = 1
    /\ last.op = "noop" /\ last.before = state
    /\ \E c \in chains : c.op = "noop"

----------------------------------------------------------------------------
(* Functions evaluated on their own *)

FetchArgs == [fn : {"fetch"}, graph : Graphs, current : Versions]

\* fetch_cincinnati_next applied to a served graph and a current version
FetchNext ==
    /\ arg.fn = "fetch"
    /\ ret = NoRet
    /\ ret' = fetch_cincinnati_next(arg.graph, arg.current)
    /\ UNCHANGED workers /\ UNCHANGED <<topology, strategy, lockmgr, state, ticks, chains, dbus,
                   finalizeSent, last, clean, arg>>
    /\ UNCHANGED splitVars

\* UpdateConfig as read from the configuration: the strategy name and the
\* base URL of the remote_http strategy
StrategyNames ==
    {"immediate", "never", "periodic", "remote_http", "", "Immediate", "reboot"}

DEFAULT_REMOTE_HTTP_BASE == "http://localhost:9999"

BaseUrls == {"", DEFAULT_REMOTE_HTTP_BASE, "https://locks.example.com/", "locks"}

ConfigArgs == [fn : {"config"}, strategy : StrategyNames, base_url : BaseUrls]

\* the default graph base of try_from_input
DEFAULT_CINCINNATI_BASE == "http://localhost:9876"

\* the strings that are absolute URLs; the last one cannot be a base
AbsoluteUrls ==
    {DEFAULT_REMOTE_HTTP_BASE, "https://locks.example.com/",
     DEFAULT_CINCINNATI_BASE, "mailto:ops"}

\* reqwest::Url::parse: an absolute URL parses, a bare word does not
Url_parse(u) == u \in AbsoluteUrls

Unsupported == [st |-> "err", val |-> "unsupported strategy"]
UrlError == [st |-> "err", val |-> "relative URL without a base"]

\* StratRemoteHTTP::parse
StratRemoteHTTP_parse(cfg) ==
    LET base_url == IF cfg.base_url = "" THEN DEFAULT_REMOTE_HTTP_BASE
                    ELSE cfg.base_url
    IN IF Url_parse(base_url) THEN Ok("Http") ELSE UrlError

try_periodic == Ok("Periodic")

try_remote_http(cfg) == StratRemoteHTTP_parse(cfg)

\* Default for UpStrategy
UpStrategy_default == "Immediate"

\* faulty variant: a name that is not known selects the default
try_from_config_defaulting(cfg) ==
    CASE cfg.strategy = "immediate" -> Ok("Immediate")
      [] cfg.strategy = "never" -> Ok("Never")
      [] cfg.strategy = "periodic" -> try_periodic
      [] cfg.strategy = "remote_http" -> try_remote_http(cfg)
      [] OTHER -> Ok(UpStrategy_default)

\* UpStrategy::try_from_config
try_from_config(cfg) ==
    CASE cfg.strategy = "immediate" -> Ok("Immediate")
      [] cfg.strategy = "never" -> Ok("Never")
      [] cfg.strategy = "periodic" -> try_periodic
      [] cfg.strategy = "remote_http" -> try_remote_http(cfg)
      [] cfg.strategy = "" -> Ok(UpStrategy_default)
      [] OTHER -> Unsupported

\* try_from_config applied to a configuration
Configure ==
    /\ arg.fn = "config"
    /\ ret = NoRet
    /\ ret' = try_from_config(arg)
    /\ UNCHANGED workers /\ UNCHANGED <<topology, strategy, lockmgr, state, ticks, chains, dbus,
                   finalizeSent, last, clean, arg>>
    /\ UNCHANGED splitVars

InitFn ==
    /\ topology = "folded"
    /\ strategy = "Immediate"
    /\ lockmgr = "up"
    /\ state = StartState
    /\ ticks = 0
    /\ chains = {}
    /\ dbus = {}
    /\ workers = DbusThreads
    /\ rpmPending = NoRelease
    /\ rpmBox = <<>>
    /\ finPending = NoRelease
    /\ finSteady = FALSE
    /\ finBox = <<>>
    /\ finalizeSent = 0
    /\ last = NoLast
    /\ clean = TRUE
    /\ arg \in FetchArgs \cup ConfigArgs
    /\ ret = NoRet

NextFn ==
    \/ FetchNext
    \/ Configure

SpecFn == InitFn /\ [][NextFn]_vars

MissingVersionFails ==
    \A g \in Graphs : \A v \in Versions :
        v \notin g.nodes => fetch_cincinnati_next(g, v) = NotFound

\* C16: a graph without the current version makes fetch_next fail with
\* "current version not found"; the check_for_update chain that got this
\* failure changes nothing (the agent stays in Steady), and the next tick in
\* Steady fetches again.
C16_MissingVersionIsFailure ==
    [][/\ MissingVersionFails
       /\ \A c \in chains :
            (c.op = "check_for_update" /\ c.res = NotFound /\ Completes(c))
                => /\ state' = state
                   /\ (c.alone => state'.tag = "Steady")
       /\ (/\ topology = "folded" /\ ticks' = ticks + 1
           /\ state.tag = "Steady"
           /\ last.op = "check_for_update" /\ last.res = NotFound)
             => \E c \in chains' :
                    c.id = NewId /\ c.op = "check_for_update" /\ c.pc = "fetch"]_vars

C16_Witness ==
    /\ state.tag = "Steady"
    /\ last.op = "check_for_update" /\ last.res = NotFound
    /\ NotFound \in FetchOutcomes
    /\ \E c \in chains :
         c.op = "check_for_update" /\ c.alone /\ c.pc = "fetch"

\* the variant each known name stands for
VariantOf(name) ==
    CASE name = "immediate" -> "Immediate"
      [] name = "never" -> "Never"
      [] name = "periodic" -> "Periodic"
      [] name = "remote_http" -> "Http"
      [] name = "" -> "Immediate"
      [] OTHER -> "none"

\* C17 as stated: the configured name selects the variant (immediate, never,
\* periodic, remote_http; the empty name selects Immediate) and every other
\* name is a configuration error.
C17_NameSelectsVariant ==
    (arg.fn = "config" /\ ret # NoRet) =>
        IF VariantOf(arg.strategy) = "none" THEN ret.st = "err"
        ELSE ret = Ok(VariantOf(arg.strategy))

\* C17 amended: as stated, but the name remote_http selects RemoteHttp only
\* when its base URL is empty or parses as a URL, and is a configuration
\* error otherwise.
C17_NameSelectsVariantUrlChecked ==
    (arg.fn = "config" /\ ret # NoRet) =>
        IF VariantOf(arg.strategy) = "none" THEN ret.st = "err"
        ELSE IF arg.strategy = "remote_http" /\ arg.base_url # ""
                /\ ~Url_parse(arg.base_url)
        THEN ret.st = "err"
        ELSE ret = Ok(VariantOf(arg.strategy))

C17_Witness ==
    /\ arg.fn = "config"
    /\ arg.strategy = "remote_http" /\ arg.base_url = "locks"
    /\ ret = UrlError

\* C18: an IPC call of the backend that fails ends, for the caller of stage
\* or finalize, in a failure value, and no worker thread is lost to a panic.
C18_IpcFailureIsValue ==
    [][\A d \in dbus :
         (d.running /\ d \notin dbus' /\ d.msg = "StageDeployment") =>
            /\ workers' = workers
            /\ \A c \in chains' :
                 (c.id = d.id /\ c.res.st # "err") =>
                     c.res \in {Ok(d.rel), Ok("unit")}]_vars

----------------------------------------------------------------------------
(* The agent with ticks that keep firing *)

\* run_interval never stops: as RefreshTick, with the count of ticks kept
\* at MaxTicks once it is reached
RefreshTickLive ==
    /\ topology = "folded"
    /\ Cardinality(chains) < MaxInflight
    /\ ticks' = IF ticks < MaxTicks THEN ticks + 1 ELSE ticks
    /\ chains' = Overlapped(chains) \cup {handle(NewId)}
    /\ clean' = (clean /\ chains = {})
    /\ UNCHANGED <<topology, strategy, lockmgr, state, dbus, workers,
                   finalizeSent, last>>
    /\ UNCHANGED splitVars
    /\ UNCHANGED fnVars

InitLive ==
    /\ Init
    /\ topology = "folded"
    /\ strategy \in {"Immediate", "Http"}
    /\ lockmgr = "up"

\* the replies of the worker that cost no thread: a call that fails takes
\* its thread with it, and a pool without threads answers nothing
DbusReplyAlive == DbusReply /\ workers' = workers

NextLive ==
    \/ RefreshTickLive
    \/ StrategyReply
    \/ FetchReply
    \/ BackendHandle
    \/ DbusStart
    \/ DbusReplyAlive
    \/ Complete

\* a collaborator's positive answer reaches a chain in this step
Positive ==
    \E c \in chains : \E d \in chains' :
        /\ d.id = c.id /\ c.pc # "ready" /\ d.pc # c.pc
        /\ \/ d.answer = Ok("true")
           \/ d.res.st = "ok" /\ d.res.val \in Releases

\* ticks keep firing, every request is taken up and answered, chains
\* complete, and no collaborator fails for ever
SpecLive ==
    /\ InitLive
    /\ [][NextLive]_vars
    /\ WF_vars(RefreshTickLive)
    /\ WF_vars(BackendHandle)
    /\ WF_vars(DbusStart)
    /\ WF_vars(Complete)
    /\ SF_vars(StrategyReply /\ Positive)
    /\ SF_vars(FetchReply /\ Positive)
    /\ SF_vars(DbusReplyAlive /\ Positive)

\* C20: with ticks that keep firing and collaborators that succeed in the
\* end, the agent reaches UpdateFinalizing.
C20_EventuallyFinalizing == <>(state.tag = "UpdateFinalizing")

\* C21: the agent moves from Steady to UpdateFound(r) only when a
\* check_for_update chain whose fetch_next answered Some(r) completes; a
\* chain whose fetch_next answered None leaves the state as it is.
C21_UpdateFoundOnlyOnSome ==
    [][/\ (state.tag = "Steady" /\ state'.tag = "UpdateFound") =>
            \E c \in chains :
                /\ Completes(c) /\ c.pc = "ready"
                /\ c.op = "check_for_update" /\ c.res = Ok(state'.rel)
       /\ \A c \in chains :
            (/\ c.op = "check_for_update" /\ c.pc = "ready"
             /\ c.res = Ok("none") /\ Completes(c)) => state' = state]_vars

C21_Witness ==
    /\ state = [tag |-> "UpdateFound", rel |-> "r2"]
    /\ last.op = "check_for_update" /\ last.res = Ok("r2")
    /\ last.before.tag = "Steady"
    /\ ticks >= 4

\* C22: the agent enters Steady only when a try_steady chain whose
\* report_steady answered true completes; a chain answered false leaves the
\* state as it is, and a tick in Initialization asks report_steady again.
C22_SteadyOnlyOnTrueReport ==
    [][/\ (state.tag # "Steady" /\ state'.tag = "Steady") =>
            \E c \in chains :
                /\ Completes(c) /\ c.pc = "ready"
                /\ c.op = "try_steady" /\ c.answer = Ok("true")
       /\ \A c \in chains :
            (/\ c.op = "try_steady" /\ c.pc = "ready"
             /\ c.answer = Ok("false") /\ Completes(c)) => state' = state
       /\ (topology = "folded" /\ ticks' = ticks + 1
             /\ state.tag = "Initialization") =>
            \E c \in chains' :
                c.id = NewId /\ c.op = "try_steady" /\ c.pc = "strategy"]_vars

C22_Witness ==
    /\ strategy = "Http"
    /\ state.tag = "Steady"
    /\ last.op = "try_steady" /\ last.answer = Ok("true")
    /\ last.before.tag = "Initialization"
    /\ ticks = 3 /\ chains = {} /\ ~clean

\* C23: the agent starts in StartState with nothing in flight; a tick that
\* finds StartState spawns a chain that is ready at once and has called no
\* collaborator, every completion of such a chain writes Initialization, and
\* with the first tick delivered at start the agent does reach Initialization.
C23_FirstTickInitializes ==
    /\ (state = StartState /\ chains = {} /\ ticks = 0)
    /\ [][/\ (ticks' # ticks /\ state = StartState) =>
               \E c \in chains' :
                   /\ c.id = NewId /\ c.op = "try_initialize"
                   /\ c.pc = "ready" /\ c.calls = 0
          /\ \A c \in chains :
               (c.op = "try_initialize" /\ Completes(c)) =>
                   state' = [tag |-> "Initialization", rel |-> NoRelease]]_vars
    /\ <>(state.tag = "Initialization")

C23_Witness ==
    /\ state = [tag |-> "Initialization", rel |-> NoRelease]
    /\ last.op = "try_initialize" /\ last.before = StartState
    /\ ticks = 1 /\ chains = {} /\ dbus = {}

\* C24: the agent enters UpdateInProgress(r') only from UpdateFound(r), when a
\* try_update_deployment chain that staged r completes with Some(r') and
\* r' = r; a chain that ended in None or in a failure leaves the state alone.
C24_InProgressOnlyAfterStage ==
    [][/\ (state' # state /\ state'.tag = "UpdateInProgress") =>
            /\ state.tag = "UpdateFound"
            /\ state'.rel = state.rel
            /\ \E c \in chains :
                 /\ Completes(c) /\ c.pc = "ready"
                 /\ c.op = "try_update_deployment"
                 /\ c.rel = state.rel /\ c.res = Ok(state'.rel)
       /\ \A c \in chains :
            (/\ c.op = "try_update_deployment" /\ c.pc = "ready"
             /\ ~Some(c) /\ Completes(c)) => state' = state]_vars

\* the lifecycle table: the stage that follows each stage
LifecycleEdges ==
    {<<"StartState", "Initialization">>, <<"Initialization", "Steady">>,
     <<"Steady", "UpdateFound">>, <<"UpdateFound", "UpdateInProgress">>,
     <<"UpdateInProgress", "UpdateStaged">>,
     <<"UpdateStaged", "UpdateFinalizing">>}

\* C25: every change of the agent's lifecycle stage follows an edge of the
\* lifecycle table, also when the chain that writes it was dispatched by an
\* earlier tick.
C25_LifecycleEdgesOnly ==
    [][state'.tag # state.tag =>
          <<state.tag, state'.tag>> \in LifecycleEdges]_vars

\* the stage requests of the agent that have been sent and not yet answered
OutstandingStage(r) ==
    {c \in chains : /\ c.op = "try_update_deployment" /\ c.rel = r
                    /\ c.pc # "ready"}

\* C26: for each release the agent has at most one stage request that is
\* sent and not yet answered.
C26_OneStagePerRelease ==
    \A r \in Releases : Cardinality(OutstandingStage(r)) <= 1

\* C27: in the split arrangement a FinalizeDeployment request is sent only by
\* a TriggerFinalize chain whose has_green_light answered true, while the
\* pending slot holds a release and the steady flag is set; the steady flag
\* is set only by a ReportSteadyState chain whose report_steady answered true.
C27_FinalizeNeedsPendingSteadyGreen ==
    [][/\ (/\ topology = "split"
           /\ \/ finalizeSent' # finalizeSent
              \/ /\ Len(rpmBox') > Len(rpmBox)
                 /\ rpmBox'[Len(rpmBox')].type = "FinalizeDeployment") =>
            /\ finPending # NoRelease
            /\ finSteady
            /\ finalizeSent' = finalizeSent + 1
            /\ rpmBox'[Len(rpmBox')].type = "FinalizeDeployment"
            /\ \E c \in chains : \E d \in chains' :
                 /\ c.op = "TriggerFinalize" /\ c.pc = "strategy"
                 /\ d.id = c.id /\ d.answer = Ok("true")
                 /\ c.rel \in Releases
                 /\ rpmBox'[Len(rpmBox')].rel = c.rel
       /\ (finSteady' /\ ~finSteady) =>
            \E c \in chains :
                /\ Completes(c) /\ c.op = "ReportSteadyState"
                /\ c.answer = Ok("true")]_vars

C27_Witness ==
    /\ topology = "split"
    /\ finalizeSent = 1
    /\ finSteady /\ finPending \in Releases
    /\ rpmBox # <<>> /\ rpmBox[1].type = "FinalizeDeployment"

----------------------------------------------------------------------------
(* The Finalizer's handlers in every value of its fields *)

\* the Finalizer with any content of its pending slot and steady flag, and
\* possibly a NewPending message in its mailbox
InitFinalizer ==
    /\ topology = "split"
    /\ strategy \in Strategies
    /\ lockmgr \in {"up", "down"}
    /\ (strategy # "Http" => lockmgr = "up")
    /\ state = StartState
    /\ ticks = 0
    /\ chains = {}
    /\ dbus = {}
    /\ workers = DbusThreads
    /\ rpmPending = NoRelease
    /\ rpmBox = <<>>
    /\ finPending \in Releases \cup {NoRelease}
    /\ finSteady \in BOOLEAN
    /\ finBox \in {<<>>} \cup {<<Msg("NewPending", r)>> : r \in Releases}
    /\ finalizeSent = 0
    /\ last = NoLast
    /\ clean = TRUE
    /\ arg = NoArg
    /\ ret = NoRet

\* the actors that main.rs starts
NextSplit ==
    \/ StrategyReply
    \/ FetchReply
    \/ DbusStart
    \/ DbusReply
    \/ Complete
    \/ ScannerTick
    \/ ApplyTimer
    \/ FinalizerTimer
    \/ RpmHandle
    \/ FinHandle

SpecFinalizer == InitFinalizer /\ [][NextSplit]_vars

RequesterOps == AgentOps \cup {"TriggerFinalize"}

\* C29: every call at the worker of the local update mechanism was caused by
\* a request of the agent (or of the Finalizer in the split arrangement),
\* never by the graph fetch or by a timer of the backend.
C29_CallsOnlyOnRequest ==
    \A d \in dbus : \E c \in chains : c.id = d.id /\ c.op \in RequesterOps

\* the chains that put a question to the strategy
StrategyOps == {"try_steady", "try_finalizing", "ReportSteadyState",
                "TriggerFinalize"}

\* the answers the Periodic strategy has for its two questions
PeriodicAnswers ==
    {has_green_light("Periodic", NoHttp), report_steady("Periodic", NoHttp)}

\* C30: with the Periodic strategy a question is answered without any HTTP
\* exchange, and true is given on a cadence only: it is not the answer to
\* every question, so the strategy has another answer than true to give.
C30_PeriodicOnCadence ==
    \A c \in chains :
        (strategy = "Periodic" /\ c.op \in StrategyOps /\ c.pc = "ready") =>
            /\ c.http = NoHttp
            /\ c.answer = Ok("true") => PeriodicAnswers # {Ok("true")}

----------------------------------------------------------------------------
(* Startup: main, try_from_input, Identity::try_from_config *)

\* the width of the throttle field
U16Max == 65535

\* the throttle placed in the query when the identity has none
DefaultThrottle == "666"

\* decimal strings and the numbers they denote
Decimal ==
    [t \in {"1000", "1001", "65536", DefaultThrottle} |->
        CASE t = "1000" -> 1000
          [] t = "1001" -> 1001
          [] t = "65536" -> 65536
          [] t = DefaultThrottle -> 666]

\* str::parse::<u16>: a decimal numeral that fits 16 bits
parse_u16(t) ==
    IF t \in DOMAIN Decimal /\ Decimal[t] <= U16Max
    THEN [st |-> "ok", val |-> Decimal[t]]
    ELSE [st |-> "err", val |-> 0]

\* u16::to_string
to_string(n) == CHOOSE t \in DOMAIN Decimal : Decimal[t] = n

\* Uuid::parse_str
Uuid_parse_str(u) == u = "67e55044-10b1-426f-9247-bb680e5fe0c8"

\* Option<u16>
None_u16 == [some |-> FALSE, val |-> 0]
Some_u16(n) == [some |-> TRUE, val |-> n]

IdentityError == [st |-> "err", val |-> "failed to build identity"]

\* Identity::try_from_config: the node uuid, then the throttle
Identity_try_from_config(cfg) ==
    IF cfg.node_uuid # "" /\ ~Uuid_parse_str(cfg.node_uuid) THEN IdentityError
    ELSE IF cfg.throttle_permille = ""
         THEN [st |-> "ok", throttle_permille |-> None_u16]
         ELSE IF parse_u16(cfg.throttle_permille).st = "ok"
              THEN [st |-> "ok",
                    throttle_permille |->
                        Some_u16(parse_u16(cfg.throttle_permille).val)]
              ELSE IdentityError

\* From<Identity> for HttpParams: the throttle_permille query parameter
HttpParams_from(identity) ==
    IF identity.throttle_permille.some
    THEN to_string(identity.throttle_permille.val)
    ELSE DefaultThrottle

\* cincinnati::configure: base_url.join(V1_GRAPH_PATH)
Url_join(u) == u # "mailto:ops"

\* AgentConfig::try_from_input followed by the configure calls of main: the
\* graph URL, the identity, the strategy, each ending main on an error
try_from_input(cfg) ==
    LET cincinnati == IF cfg.cincinnati # "" THEN cfg.cincinnati
                      ELSE DEFAULT_CINCINNATI_BASE
        identity == Identity_try_from_config(cfg)
        strat == try_from_config(cfg)
    IN IF ~Url_parse(cincinnati) THEN UrlError
       ELSE IF identity.st # "ok" THEN IdentityError
       ELSE IF strat.st # "ok" THEN strat
       ELSE IF ~Url_join(cincinnati) THEN UrlError
       ELSE [st |-> "ok", val |-> strat.val,
             throttle_permille |-> identity.throttle_permille]

\* the configurations main is given
MainStrategies == {"immediate", "remote_http", "reboot", ""}
MainBaseUrls == {"", "locks"}
CincinnatiUrls == {"", "graph", "mailto:ops"}
NodeUuids == {"", "not-a-uuid"}
ThrottleInputs == {"", "1000", "1001", "65536", "abc"}

MainArgs ==
    [fn : {"main"}, cincinnati : CincinnatiUrls, node_uuid : NodeUuids,
     throttle_permille : ThrottleInputs, strategy : MainStrategies,
     base_url : MainBaseUrls]

\* main up to sys.run(): an error of the configuration block returns from
\* main, otherwise the three actors are started with the strategy built
main_configure ==
    /\ arg.fn = "main"
    /\ ret.st = "pending"
    /\ ret' = try_from_input(arg)
    /\ strategy' = IF ret'.st = "ok" THEN ret'.val ELSE strategy
    /\ UNCHANGED workers
    /\ UNCHANGED <<topology, lockmgr, state, ticks, chains, dbus,
                   finalizeSent, last, clean, arg>>
    /\ UNCHANGED splitVars

\* the System is running
Started == ret.st = "ok"

\* the actors, once started
MainRun == Started /\ NextSplit

InitMain ==
    /\ topology = "split"
    /\ strategy = "Never"
    /\ lockmgr \in {"up", "down"}
    /\ state = StartState
    /\ ticks = 0
    /\ chains = {}
    /\ dbus = {}
    /\ workers = DbusThreads
    /\ rpmPending = NoRelease
    /\ rpmBox = <<>>
    /\ finPending = NoRelease
    /\ finSteady = FALSE
    /\ finBox = <<>>
    /\ finalizeSent = 0
    /\ last = NoLast
    /\ clean = TRUE
    /\ arg \in MainArgs
    /\ ret = NoRet

NextMain ==
    \/ main_configure
    \/ MainRun

SpecMain == InitMain /\ [][NextMain]_vars

\* the strategy names of the configuration format
KnownStrategies == {"immediate", "never", "periodic", "remote_http", ""}

\* the throttle values a configuration may carry: 0 to 1000 permille
ThrottleMax == 1000

ThrottleInRange(t) ==
    t = "" \/ (t \in DOMAIN Decimal /\ Decimal[t] <= ThrottleMax)

\* a configuration with a fatal error
ConfigFatal(cfg) ==
    \/ cfg.strategy \notin KnownStrategies
    \/ cfg.cincinnati # "" /\ ~(Url_parse(cfg.cincinnati) /\ Url_join(cfg.cincinnati))
    \/ cfg.strategy = "remote_http" /\ cfg.base_url # "" /\ ~Url_parse(cfg.base_url)
    \/ cfg.node_uuid # "" /\ ~Uuid_parse_str(cfg.node_uuid)
    \/ ~ThrottleInRange(cfg.throttle_permille)

\* no actor has done anything
NothingStarted ==
    /\ ticks = 0 /\ chains = {} /\ dbus = {}
    /\ rpmBox = <<>> /\ finBox = <<>>

\* C31: a process whose configuration has a fatal error (strategy name not
\* recognized, graph or lock-manager URL that does not parse, node uuid or
\* throttle not valid) never starts: main returns an error and no timer
\* fires, no request is made and no IPC call happens.
C31_FatalConfigNeverStarts ==
    ConfigFatal(arg) => (~Started /\ NothingStarted)

\* C32: the throttle of the identity that is built lies in 0..1000, and so
\* does the throttle_permille parameter of every graph fetch that is sent.
C32_ThrottleWithinPermille ==
    Started =>
        /\ ret.throttle_permille.some =>
               ret.throttle_permille.val \in 0..ThrottleMax
        /\ \A c \in chains :
               c.op = "FetchGraph" =>
                   Decimal[HttpParams_from(ret)] \in 0..ThrottleMax

\* a stage call for r returns successfully in this step
StageSucceeds(r) ==
    \E d \in Running : \E c \in chains : \E e \in chains' :
        /\ d.msg = "StageDeployment" /\ d.rel = r /\ d \notin dbus'
        /\ c.id = d.id /\ c.op \in {"ApplyPending", "try_update_deployment"}
        /\ e.id = c.id /\ e.pc = "ready" /\ e.res.st = "ok"

\* C33: a finalize request for r is issued only after a stage call for r
\* returned successfully. Split arrangement: NewPending(r) is sent only in
\* the step in which a stage call for r succeeds, the Finalizer's slot takes
\* its release from a NewPending only, a TriggerFinalize chain carries the
\* release of the slot and FinalizeDeployment carries the release of its
\* chain. Folded arrangement: the request is sent by a try_finalizing chain
\* dispatched in UpdateStaged(r), UpdateStaged(r) is entered from
\* UpdateInProgress(r) only, and UpdateInProgress(r) is written only when a
\* try_update_deployment chain whose stage call returned r completes, or a
\* check_update_success chain dispatched in UpdateInProgress(r).
C33_FinalizeOnlyAfterStage ==
    [][/\ \A r \in Releases :
            finBox' = Append(finBox, Msg("NewPending", r)) => StageSucceeds(r)
       /\ finPending' # finPending =>
            /\ finBox # <<>>
            /\ Head(finBox) = Msg("NewPending", finPending')
       /\ \A e \in chains' :
            (e.op = "TriggerFinalize" /\ e.pc = "strategy"
               /\ \A c \in chains : c.id # e.id) => e.rel = finPending
       /\ (topology = "split" /\ finalizeSent' # finalizeSent) =>
            \E c \in chains :
                /\ c.op = "TriggerFinalize" /\ c.pc = "strategy"
                /\ c.rel \in Releases
                /\ rpmBox'[Len(rpmBox')] = Msg("FinalizeDeployment", c.rel)
       /\ (topology = "folded" /\ finalizeSent' # finalizeSent) =>
            \E c \in chains :
                /\ c.op = "try_finalizing" /\ c.pc = "strategy"
                /\ c.pre = [tag |-> "UpdateStaged", rel |-> c.rel]
       /\ (state' # state /\ state'.tag = "UpdateStaged") =>
            state = [tag |-> "UpdateInProgress", rel |-> state'.rel]
       /\ (state' # state /\ state'.tag = "UpdateInProgress") =>
            \E c \in chains :
                /\ Completes(c) /\ c.res = Ok(state'.rel)
                /\ \/ c.op = "try_update_deployment"
                   \/ /\ c.op = "check_update_success"
                      /\ c.pre = [tag |-> "UpdateInProgress",
                                  rel |-> state'.rel]]_vars

C33_Witness ==
    /\ topology = "split"
    /\ rpmPending = "r2" /\ finPending = "r2"
    /\ finalizeSent = 1
    /\ rpmBox = <<Msg("FinalizeDeployment", "r2")>>

\* a finalize request of the agent has returned Some(r)
FinalizeSucceeded(c) ==
    c.op = "try_finalizing" /\ c.pc = "ready" /\ Some(c)

\* a finalize of the agent has succeeded
Finalized ==
    state.tag = "UpdateFinalizing" \/ \E c \in chains : FinalizeSucceeded(c)

DispatchState(op) ==
    CASE op = "try_initialize" -> "StartState"
      [] op = "try_steady" -> "Initialization"
      [] op = "check_for_update" -> "Steady"
      [] op = "try_update_deployment" -> "UpdateFound"
      [] op = "check_update_success" -> "UpdateInProgress"
      [] op = "try_finalizing" -> "UpdateStaged"
      [] op = "noop" -> "UpdateFinalizing"

\* the request each chain of the agent sends to RpmOstreeClient
BackendRequest(op) ==
    CASE op = "try_update_deployment" -> "StageUpdate"
      [] op = "check_update_success" -> "CheckUpdateTxn"
      [] op = "try_finalizing" -> "FinalizeUpdate"
      [] OTHER -> "none"

\* a release has been selected: the state holds one, or held one before the
\* last completion, or held one when a chain still in flight was dispatched
ReleaseSelected ==
    \/ state.rel # NoRelease
    \/ last.before.rel # NoRelease
    \/ \E c \in chains : c.op \in AgentOps /\ c.pre.rel # NoRelease

\* C35: every chain of the agent is the one of the state its tick found, a
\* request to the backend is the one of its chain, and no graph fetch is
\* issued once a release has been selected.
C35_CallsInOwnState ==
    [][topology = "folded" =>
         /\ \A e \in chains' :
              (e.op \in AgentOps /\ \A c \in chains : c.id # e.id) =>
                  /\ e.pre = state
                  /\ DispatchState(e.op) = state.tag
                  /\ (e.op = "check_for_update" => ~ReleaseSelected)
         /\ \A d \in dbus' \ dbus :
              \E c \in chains :
                  /\ c.id = d.id /\ d.req = BackendRequest(c.op)
                  /\ c.pre.tag = DispatchState(c.op)]_vars

\* C36: the agent with the Never strategy gets false from every report_steady
\* and stays in StartState or Initialization: no chain of a later state is
\* dispatched, so no graph fetch, no request to the backend and no finalize
\* request is ever made.
C36_NeverStaysInitializing ==
    (topology = "folded" /\ strategy = "Never") =>
        /\ state.tag \in {"StartState", "Initialization"}
        /\ \A c \in chains :
             /\ c.op \in {"try_initialize", "try_steady"}
             /\ (c.op = "try_steady" /\ c.pc = "ready") => c.answer = Ok("false")
        /\ dbus = {}
        /\ finalizeSent = 0

C36_Witness ==
    /\ topology = "folded" /\ strategy = "Never"
    /\ state.tag = "Initialization"
    /\ ticks = MaxTicks
    /\ last.op = "try_steady" /\ last.answer = Ok("false")
    /\ \E c \in chains : c.op = "try_steady" /\ c.answer = Ok("false")

\* C37: in the split arrangement a pending slot that holds a release holds a
\* release after every step; every ApplyPending handled with a release in
\* the slot starts a stage call for it, and every TriggerFinalize chain that
\* gets the green light sends a finalize request, however many were sent
\* before.
C37_PendingNeverCleared ==
    [][topology = "split" =>
         /\ rpmPending \in Releases => rpmPending' \in Releases
         /\ finPending \in Releases => finPending' \in Releases
         /\ (/\ rpmBox # <<>> /\ Head(rpmBox).type = "ApplyPending"
             /\ rpmBox' = Tail(rpmBox) /\ rpmPending \in Releases) =>
               \E d \in dbus' \ dbus :
                   d.msg = "StageDeployment" /\ d.rel = rpmPending
         /\ \A c \in chains : \A d \in chains' :
              (/\ c.op = "TriggerFinalize" /\ c.pc = "strategy"
               /\ d.id = c.id /\ d.answer = Ok("true")) =>
                  /\ finalizeSent' = finalizeSent + 1
                  /\ rpmBox'[Len(rpmBox')] = Msg("FinalizeDeployment", c.rel)]_vars

C37_Witness ==
    /\ topology = "split"
    /\ finalizeSent = 2
    /\ rpmPending \in Releases /\ finPending = rpmPending
    /\ rpmBox = <<Msg("FinalizeDeployment", finPending)>>

----------------------------------------------------------------------------
(* The split arrangement with its timers running for ever *)

\* finalize requests counted before the Finalizer's timers are stopped
MaxFinalize == 2

\* Finalizer::started: the two run_interval timers keep firing, 20 s apart:
\* a firing finds the call started by the firing before it answered
FinalizerTimerLive(type) ==
    /\ topology = "split"
    /\ finalizeSent < MaxFinalize
    /\ Len(finBox) < MaxBox
    /\ \A c \in chains : c.op # type
    /\ finBox' = Append(finBox, Msg(type, NoRelease))
    /\ UNCHANGED fnVars /\ UNCHANGED workers
    /\ UNCHANGED <<topology, strategy, lockmgr, state, ticks, chains, dbus,
                   finalizeSent, last, clean>>
    /\ UNCHANGED <<rpmPending, rpmBox, finPending, finSteady>>

ReportSteadyTimer == FinalizerTimerLive("ReportSteadyState")

TriggerFinalizeTimer == FinalizerTimerLive("TriggerFinalize")

\* firings left to the scanner's and the apply timer while the Finalizer's
\* timers run
LiveTicks == 2

InitSplitLive ==
    /\ topology = "split"
    /\ strategy \in {"Immediate", "Http", "Periodic"}
    /\ lockmgr = "up"
    /\ state = StartState
    /\ ticks = MaxTimers - LiveTicks
    /\ chains = {}
    /\ dbus = {}
    /\ workers = DbusThreads
    /\ rpmPending = NoRelease
    /\ rpmBox = <<>>
    /\ finPending = NoRelease
    /\ finSteady = FALSE
    /\ finBox = <<>>
    /\ finalizeSent = 0
    /\ last = NoLast
    /\ clean = TRUE
    /\ arg = NoArg
    /\ ret = NoRet

NextSplitLive ==
    \/ ReportSteadyTimer
    \/ TriggerFinalizeTimer
    \/ ScannerTick
    \/ ApplyTimer
    \/ StrategyReply
    \/ FetchReply
    \/ DbusStart
    \/ DbusReplyAlive
    \/ Complete
    \/ RpmHandle
    \/ FinHandle

\* the finished future with identity i is dropped
CompleteOf(i) == Complete /\ \E c \in chains : c.id = i /\ Completes(c)

\* each of the Finalizer's timers keeps firing (neither is kept out of the
\* mailbox by the other for ever), every message is handled, every call is
\* answered, and the strategy does not answer false or fail for ever
SpecSplitLive ==
    /\ InitSplitLive
    /\ [][NextSplitLive]_vars
    /\ SF_vars(ReportSteadyTimer)
    /\ SF_vars(TriggerFinalizeTimer)
    /\ SF_vars(FinHandle)
    /\ SF_vars(RpmHandle)
    /\ WF_vars(FetchReply)
    /\ WF_vars(DbusStart)
    /\ WF_vars(DbusReplyAlive)
    /\ \A i \in 1..MaxInflight : WF_vars(CompleteOf(i))
    /\ WF_vars(StrategyReply)
    /\ SF_vars(StrategyReply /\ Positive)

\* a finalize request for r is in RpmOstreeClient's mailbox
FinalizeRequested(r) ==
    \E i \in 1..Len(rpmBox) : rpmBox[i] = Msg("FinalizeDeployment", r)

\* r is in the Finalizer's slot or on its way there
PendingAtFinalizer(r) ==
    \/ finPending = r
    \/ \E i \in 1..Len(finBox) : finBox[i] = Msg("NewPending", r)

\* C38: in the split arrangement a release that has reached the Finalizer,
\* in its slot or as a NewPending still in its mailbox, steady state
\* confirmed or not, is eventually followed by a finalize request for it,
\* as long as the timers run.
C38_PendingEventuallyFinalized ==
    \A r \in Releases :
        (PendingAtFinalizer(r) /\ finalizeSent < MaxFinalize)
            ~> FinalizeRequested(r)

C38_Witness ==
    /\ topology = "split"
    /\ finPending \in Releases /\ finSteady
    /\ FinalizeRequested(finPending)
    /\ finalizeSent = 1

----------------------------------------------------------------------------
(* The Finalizer's steady flag *)

\* a report_steady() call of the Finalizer is started in this step
ReportSteadyCalled ==
    \E d \in chains' :
        /\ d.op = "ReportSteadyState"
        /\ \A c \in chains : c.id = d.id => c.op # "ReportSteadyState"

\* C39: the Finalizer's steady flag starts false, is never reset, is set
\* only by the completion of a report_steady() call that answered true, and
\* once it is set no report_steady() call is started.
C39_SteadyMonotone ==
    /\ ~finSteady
    /\ [][/\ finSteady => finSteady'
          /\ (finSteady' /\ ~finSteady) =>
                \E c \in chains :
                    /\ Completes(c) /\ c.op = "ReportSteadyState"
                    /\ c.answer = Ok("true") /\ c.res = Ok("true")
          /\ finSteady => ~ReportSteadyCalled]_vars

\* the flag is set, the call that set it has completed, and the last
\* ReportSteadyState the timer sends is waiting to be handled
C39_Witness ==
    /\ topology = "split"
    /\ finSteady
    /\ chains = {}
    /\ ticks = MaxTimers
    /\ finBox = <<Msg("ReportSteadyState", NoRelease)>>

====
